---- MODULE Spec2Model ----
(***************************************************************************)
(* Compilation job scheduler (CompileOrchestrator) driving the backend     *)
(* instance in use (TectonicBackend, LatexmkBackend), each of which         *)
(* supervises external processes.                                          *)
(*                                                                         *)
(* A job is a slot of Jobs.  compile() takes the lowest slot that holds no *)
(* job (a fresh job object with a fresh id).  The record of a job that     *)
(* nothing refers to any more (terminal status, handle settled, backend    *)
(* call returned, in no map of the scheduler) stays visible in the state   *)
(* that its last step produced and is dropped by the step after it.        *)
(* The process spawned by the backend call of job j is identified by j.    *)
(***************************************************************************)
EXTENDS Integers, Sequences, FiniteSets, TLC

\* ---- bounds ----
NJobs == 3
NTargets == 3
MaxCeiling == 2
MaxDrift == 2
LiveNTargets == 2
LiveMaxDrift == 1
TectonicNJobs == 2
TectonicNTargets == 2
CallNJobs == 1
CallNTargets == 1
MaxOutput == 2
NBackends == 2

Jobs == 1..NJobs
Targets == 1..NTargets
NoJob == 0
\* the backend instances the plugin constructs (main.ts): tectonicBackend and
\* latexmkBackend
Tectonic == 1
Latexmk == 2
Backends == 1..NBackends
\* getPlatform(): win32 or a platform with process groups
Platforms == {"posix", "win32"}

\* maxConcurrent as set by the field initialiser
DefaultMaxConcurrent == 2

VARIABLES
  status,          \* job.status; "none" for a slot that holds no job
  project,         \* job.project.rootPath, the target key
  activeJobs,      \* Map<id, job>, as the sequence of ids in insertion order
  activeJobCount,
  maxConcurrent,
  projectQueues,   \* Map<rootPath, job[]>, as a sequence of [key, queue]
  events,          \* per job, the lifecycle events emitted for it, in order
  settledWith,     \* per job, the results its handle was settled with
  call,            \* per job, the position of its Backend.compile call
  backend,         \* CompileOrchestrator.backend, the instance in use
  owner,           \* per job, the backend instance its compile call went to
  platform,        \* getPlatform()
  currentProcess,  \* per backend instance, its currentProcess (NoJob = null)
  process,         \* per call, the state of the process it spawned
  group,           \* per process, it has exited and other processes of its
                   \* process group are alive
  output,          \* per call, the closure's `stdout` and `stderr` buffers
  timer,           \* per call, its timeout timer is pending
  cancelled,       \* per call, the closure's `cancelled` flag
  killTimer,       \* per process, the pending SIGKILL timers of killProcessTree
  lastOp           \* the operation that produced this state

vars == <<status, project, activeJobs, activeJobCount, maxConcurrent,
          projectQueues, events, settledWith, call, backend, owner, platform,
          currentProcess, process, group, output, timer, cancelled, killTimer,
          lastOp>>

\* ---- build results ----
NoPdf == "null"
PdfFile == "pdf"

\* CompileOrchestrator.startJob, catch branch
ErrorResult(error) ==
  [success |-> FALSE, pdfPath |-> NoPdf,
   diagnostics |-> <<[severity |-> "error",
                      message |-> <<"Compilation error: ", error>>]>>]

\* CompileOrchestrator.cancelQueuedJobs
QueueCancelledResult ==
  [success |-> FALSE, pdfPath |-> NoPdf,
   diagnostics |-> <<[severity |-> "info",
                      message |-> <<"Compilation cancelled (removed from queue)">>]>>]

\* installResult.error when ensureInstalled gave no error text
NoError == <<>>

\* TectonicBackend.compile, failed ensureInstalled:
\* message: installResult.error || 'Failed to install Tectonic'
InstallFailedResult(error) ==
  [success |-> FALSE, pdfPath |-> NoPdf,
   diagnostics |-> <<[severity |-> "error",
                      message |-> IF error = NoError
                                    THEN <<"Failed to install Tectonic">>
                                    ELSE error,
                      code |-> "TECTONIC_INSTALL_FAILED"]>>]

\* error.message of the error event of a process that could not be started
SpawnError == "spawn"

\* compile of the backend instance b, error handler of the process
StartFailedResult(b) ==
  [success |-> FALSE, pdfPath |-> NoPdf,
   diagnostics |-> <<[severity |-> "error",
                      message |-> IF b = Latexmk
                                    THEN <<"Failed to start latexmk: ", SpawnError>>
                                    ELSE <<"Failed to start Tectonic: ", SpawnError>>,
                      code |-> IF b = Latexmk THEN "LATEXMK_NOT_FOUND"
                                              ELSE "TECTONIC_NOT_FOUND"]>>]

\* compile of either backend, close handler with the cancelled flag set
TimeoutCancelledResult ==
  [success |-> FALSE, pdfPath |-> NoPdf,
   diagnostics |-> <<[severity |-> "info",
                      message |-> <<"Compilation cancelled">>]>>]

\* ---- parseTectonicOutput ----
\* A text (a chunk, a buffer, a line, a message taken from a line) is the
\* sequence of its characters.
Digits == {"0", "1", "2", "3", "4", "5", "6", "7", "8", "9"}

\* the characters that . does not match (of those a string here can hold)
LineTerminators == {"\n", "\r"}

\* the characters that trim() removes (of those a string here can hold)
WhiteSpace == {" ", "\t", "\n", "\r", "\f"}

ErrorPrefix == <<"e", "r", "r", "o", "r", ":", " ">>
WarningPrefix == <<"w", "a", "r", "n", "i", "n", "g", ":", " ">>
TexErrorPrefix == <<"!", " ">>
DotTex == <<".", "t", "e", "x">>
Package == <<"P", "a", "c", "k", "a", "g", "e">>
NotFound == <<"n", "o", "t", " ", "f", "o", "u", "n", "d">>
UndefinedControlSequence ==
  <<"U", "n", "d", "e", "f", "i", "n", "e", "d", " ", "c", "o", "n", "t", "r", "o",
    "l", " ", "s", "e", "q", "u", "e", "n", "c", "e">>

\* output.split('\n')
RECURSIVE split(_)
split(text) ==
  LET breaks == {i \in 1..Len(text) : text[i] = "\n"}
  IN IF breaks = {} THEN <<text>>
     ELSE LET i == CHOOSE b \in breaks : \A c \in breaks : b <= c
          IN <<SubSeq(text, 1, i - 1)>> \o split(SubSeq(text, i + 1, Len(text)))

\* what follows the first n characters of text
From(text, n) == SubSeq(text, n + 1, Len(text))

\* text.trim()
trim(text) ==
  LET kept == {i \in 1..Len(text) : text[i] \notin WhiteSpace}
  IN IF kept = {} THEN <<>>
     ELSE SubSeq(text, CHOOSE i \in kept : \A k \in kept : i <= k,
                       CHOOSE i \in kept : \A k \in kept : k <= i)

\* text.includes(part)
Includes(text, part) ==
  \E i \in 1..(Len(text) - Len(part) + 1) :
    SubSeq(text, i, i + Len(part) - 1) = part

\* (.+)$ matches text: one character or more, none a line terminator
DotPlus(text) ==
  text # <<>> /\ \A i \in 1..Len(text) : text[i] \notin LineTerminators

\* /^prefix(.+)$/ matches line
StartsWith(line, prefix) ==
  /\ Len(line) > Len(prefix)
  /\ SubSeq(line, 1, Len(prefix)) = prefix
  /\ DotPlus(From(line, Len(prefix)))

\* the ways /^(.+\.tex):(\d+): (.+)$/ matches line: <<k, d>> when the file
\* name ends at character k and the line number at character d
FileLineMatches(line) ==
  IF ~DotPlus(line) THEN {}
  ELSE {m \in (5..Len(line)) \X (7..Len(line)) :
          /\ SubSeq(line, m[1] - 3, m[1]) = DotTex
          /\ m[1] + 2 <= m[2]
          /\ line[m[1] + 1] = ":"
          /\ \A i \in (m[1] + 2)..m[2] : line[i] \in Digits
          /\ m[2] + 3 <= Len(line)
          /\ line[m[2] + 1] = ":"
          /\ line[m[2] + 2] = " "}

\* the match the greedy (.+\.tex) takes: the one with the longest file name
FileLineMatch(line) ==
  CHOOSE m \in FileLineMatches(line) : \A n \in FileLineMatches(line) : n[1] <= m[1]

\* the body of the loop of parseTectonicOutput: the diagnostics that one line
\* gives, decided by the first pattern that matches (of a diagnostic the
\* severity, the message and the code are kept)
LineDiagnostics(line) ==
  IF StartsWith(line, ErrorPrefix)
    THEN <<[severity |-> "error", message |-> From(line, Len(ErrorPrefix)),
            code |-> "TECTONIC_ERROR"]>>
  ELSE IF StartsWith(line, WarningPrefix)
    THEN <<[severity |-> "warning", message |-> From(line, Len(WarningPrefix)),
            code |-> "TECTONIC_WARNING"]>>
  ELSE IF FileLineMatches(line) # {}
    THEN <<[severity |-> "error", message |-> From(line, FileLineMatch(line)[2] + 2)]>>
  ELSE IF StartsWith(line, TexErrorPrefix)
    THEN <<[severity |-> "error", message |-> From(line, Len(TexErrorPrefix))]>>
  ELSE IF Includes(line, Package) /\ Includes(line, NotFound)
    THEN <<[severity |-> "error", message |-> trim(line), code |-> "MISSING_PACKAGE"]>>
  ELSE IF Includes(line, UndefinedControlSequence)
    THEN <<[severity |-> "error", message |-> UndefinedControlSequence,
            code |-> "UNDEFINED_COMMAND"]>>
  ELSE <<>>

\* the loop of parseTectonicOutput over the lines
RECURSIVE EachLine(_)
EachLine(lines) ==
  IF lines = <<>> THEN <<>>
  ELSE LineDiagnostics(Head(lines)) \o EachLine(Tail(lines))

parseTectonicOutput(text) == EachLine(split(text))

\* variant: success decided by the artifact alone
CloseResultByArtifactOnly(code, pdfExists, parsed) ==
  [success |-> pdfExists,
   pdfPath |-> IF pdfExists THEN PdfFile ELSE NoPdf,
   diagnostics |-> parsed]

\* what reading the TeX log gave the close handler of LatexmkBackend: the
\* file could not be read, or it was read and TeXLogParser.parse returned the
\* diagnostics (none for a log without findings; the one of a log that holds
\* "! Undefined control sequence.")
TexLogs ==
  {[readable |-> FALSE, diagnostics |-> <<>>],
   [readable |-> TRUE, diagnostics |-> <<>>],
   [readable |-> TRUE,
    diagnostics |-> <<[severity |-> "error",
                       message |-> <<"Undefined control sequence.">>,
                       code |-> "UNDEFINED_CONTROL"]>>]}

\* the close handler of TectonicBackend reads no TeX log
NoTexLog == [readable |-> FALSE, diagnostics |-> <<>>]

\* what the close handler of the backend instance b can get from the TeX log
TexLogsRead(b) == IF b = Latexmk THEN TexLogs ELSE {NoTexLog}

\* LatexmkBackend.compile, close handler, ordinary path: the diagnostics are
\* those of the TeX log; when the log cannot be read and the exit code is
\* not 0 the generic diagnostic is given
LatexmkCloseResult(code, pdfExists, texLog) ==
  LET fallback == <<[severity |-> "error",
                     message |-> <<"Compilation failed - check build log for details">>]>>
      diagnostics == IF texLog.readable THEN texLog.diagnostics
                     ELSE IF code # 0 THEN fallback
                     ELSE <<>>
  IN [success |-> (code = 0 /\ pdfExists),
      pdfPath |-> IF pdfExists THEN PdfFile ELSE NoPdf,
      diagnostics |-> diagnostics]

\* TectonicBackend.compile, close handler, ordinary path.  code is the exit
\* code (SignalExit when a signal ended the process), parsed the diagnostics
\* that parseTectonicOutput extracted from stdout + stderr.
CloseResult(code, pdfExists, parsed) ==
  LET fallback == <<[severity |-> "error",
                     message |-> <<"Compilation failed - check build log for details">>]>>
      diagnostics == IF ~pdfExists /\ parsed = <<>> /\ code # 0
                       THEN fallback ELSE parsed
  IN [success |-> (code = 0 /\ pdfExists),
      pdfPath |-> IF pdfExists THEN PdfFile ELSE NoPdf,
      diagnostics |-> diagnostics]

\* the buffers of a call whose process has written nothing
NoOutput == [stdout |-> <<>>, stderr |-> <<>>]

\* ---- the program state as one record ----
State ==
  [status |-> status, project |-> project, activeJobs |-> activeJobs,
   activeJobCount |-> activeJobCount, projectQueues |-> projectQueues,
   events |-> events, settledWith |-> settledWith, call |-> call,
   backend |-> backend, owner |-> owner, platform |-> platform,
   currentProcess |-> currentProcess, process |-> process, group |-> group,
   output |-> output,
   timer |-> timer, cancelled |-> cancelled, killTimer |-> killTimer,
   cancelCalls |-> 0,     \* Backend.cancel() invocations of the current step
   emitted |-> <<>>]      \* events emitted by the current step, in order

SetState(S) ==
  /\ status' = S.status
  /\ project' = S.project
  /\ activeJobs' = S.activeJobs
  /\ activeJobCount' = S.activeJobCount
  /\ projectQueues' = S.projectQueues
  /\ events' = S.events
  /\ settledWith' = S.settledWith
  /\ call' = S.call
  /\ backend' = S.backend
  /\ owner' = S.owner
  /\ platform' = S.platform
  /\ currentProcess' = S.currentProcess
  /\ process' = S.process
  /\ group' = S.group
  /\ output' = S.output
  /\ timer' = S.timer
  /\ cancelled' = S.cancelled
  /\ killTimer' = S.killTimer

Op(name, arg, cancels, ret, emitted, result) ==
  [op |-> name, arg |-> arg, cancels |-> cancels, ret |-> ret,
   emitted |-> emitted, result |-> result]

\* the result of a step that is not the end of a Backend.compile call
NoResult == [success |-> FALSE, pdfPath |-> NoPdf, diagnostics |-> <<>>]

\* the step of operation name(arg) leaves the program in S and returns ret
Commit(after, name, arg, ret) ==
  \E S \in {after} :
    /\ SetState(S)
    /\ lastOp' = Op(name, arg, S.cancelCalls, ret, S.emitted, NoResult)

\* the step name(arg) in which a Backend.compile call resolves with result
\* leaves the program in S
CommitResult(after, name, arg, result) ==
  \E S \in {after} :
    /\ SetState(S)
    /\ lastOp' = Op(name, arg, S.cancelCalls, 0, S.emitted, result)

\* F applied to the value of x
Then(x, F(_)) == CHOOSE r \in {F(v) : v \in {x}} : TRUE

RemoveAt(s, i) == SubSeq(s, 1, i - 1) \o SubSeq(s, i + 1, Len(s))

Without(s, x) ==
  LET idx == {i \in 1..Len(s) : s[i] = x}
  IN IF idx = {} THEN s ELSE RemoveAt(s, CHOOSE i \in idx : TRUE)

InSeq(s, x) == \E i \in 1..Len(s) : s[i] = x

\* ---- job slots ----
Terminal == {"completed", "failed", "cancelled"}

InQueues(S, j) ==
  \E i \in 1..Len(S.projectQueues) : InSeq(S.projectQueues[i].queue, j)

\* nothing refers to the job of slot j any more
Unreferenced(S, j) ==
  /\ S.status[j] \in Terminal
  /\ S.settledWith[j] # <<>>
  /\ S.call[j] \in {"idle", "returned"}
  /\ S.process[j] # "errored"
  /\ ~InSeq(S.activeJobs, j)
  /\ ~InQueues(S, j)

\* the records of unreferenced jobs are dropped
Forget(S) ==
  LET dead == {j \in Jobs : Unreferenced(S, j)}
  IN IF dead = {} THEN S ELSE
     [S EXCEPT !.status = [j \in Jobs |-> IF j \in dead THEN "none" ELSE @[j]],
               !.project = [j \in Jobs |-> IF j \in dead THEN 1 ELSE @[j]],
               !.events = [j \in Jobs |-> IF j \in dead THEN <<>> ELSE @[j]],
               !.settledWith = [j \in Jobs |-> IF j \in dead THEN <<>> ELSE @[j]],
               !.call = [j \in Jobs |-> IF j \in dead THEN "idle" ELSE @[j]],
               !.owner = [j \in Jobs |-> IF j \in dead THEN Tectonic ELSE @[j]],
               !.process = [j \in Jobs |-> IF j \in dead THEN "none" ELSE @[j]],
               !.output = [j \in Jobs |-> IF j \in dead THEN NoOutput ELSE @[j]],
               !.cancelled = [j \in Jobs |-> IF j \in dead THEN FALSE ELSE @[j]]]

Cur == Then(State, Forget)

FreeSlots(S) ==
  {j \in Jobs : S.status[j] = "none" /\ ~S.timer[j] /\ S.killTimer[j] = 0}

FreshJob(S) == CHOOSE j \in FreeSlots(S) : \A k \in FreeSlots(S) : j <= k

\* the jobs whose backend call has not returned
InFlight(S) == {j \in Jobs : S.call[j] \in {"called", "spawned", "closing"}}

\* ---- scheduler helpers ----
\* job.id, and project.rootPath of target t: keys of different kinds
JobId(j) == <<"job-", j>>
RootPath(t) == <<"/", t>>

\* activeJobs.get(key).status = 'running', activeJobs being keyed by job.id
isCompiling(S, t) ==
  LET idx == {i \in 1..Len(S.activeJobs) : JobId(S.activeJobs[i]) = RootPath(t)}
  IN IF idx = {} THEN FALSE
     ELSE S.status[S.activeJobs[CHOOSE i \in idx : TRUE]] = "running"

QueueIndex(S, t) ==
  LET idx == {i \in 1..Len(S.projectQueues) : S.projectQueues[i].key = t}
  IN IF idx = {} THEN 0 ELSE CHOOSE i \in idx : TRUE

QueueOf(S, t) ==
  IF QueueIndex(S, t) = 0 THEN <<>> ELSE S.projectQueues[QueueIndex(S, t)].queue

QueueKeys(S) == [i \in 1..Len(S.projectQueues) |-> S.projectQueues[i].key]

\* variant: no Running job is ever found
getActiveJobForProjectNone(S, t) == NoJob

getActiveJobForProject(S, t) ==
  LET idx == {i \in 1..Len(S.activeJobs) :
                /\ S.project[S.activeJobs[i]] = t
                /\ S.status[S.activeJobs[i]] = "running"}
  IN IF idx = {} THEN NoJob
     ELSE S.activeJobs[CHOOSE i \in idx : \A k \in idx : i <= k]

queueJob(S, t, j) ==
  LET i == QueueIndex(S, t)
  IN IF i = 0
       THEN [S EXCEPT !.projectQueues = Append(@, [key |-> t, queue |-> <<j>>])]
       ELSE [S EXCEPT !.projectQueues[i].queue = Append(@, j)]

\* startJob up to its await: the call to compile of the backend in use is
\* made and is pending
startJob(S, j) ==
  [S EXCEPT !.status[j] = "running",
            !.activeJobs = Append(@, j),
            !.activeJobCount = @ + 1,
            !.events[j] = Append(@, "job:started"),
            !.emitted = Append(@, <<"job:started", j>>),
            !.owner[j] = S.backend,
            !.call[j] = "called"]

\* variant: the head of the queue is read but stays in the queue
ShiftQueueKeepingHead(S, t) == S

\* variant: the map entry of a queue that became empty is kept
ShiftQueueKeepingEntry(S, t) ==
  [S EXCEPT !.projectQueues[QueueIndex(S, t)].queue = Tail(@)]

\* variant: the job started from the queue is put back at its end
ShiftQueueReenqueuing(S, t) ==
  LET i == QueueIndex(S, t)
  IN [S EXCEPT !.projectQueues[i].queue = Append(Tail(@), Head(@))]

\* queue.shift(), deleting the map entry when the queue becomes empty
ShiftQueue(S, t) ==
  LET i == QueueIndex(S, t)
      rest == Tail(S.projectQueues[i].queue)
  IN IF rest = <<>>
       THEN [S EXCEPT !.projectQueues = RemoveAt(@, i)]
       ELSE [S EXCEPT !.projectQueues[i].queue = rest]

\* variant: the head of the queue is started without looking for a Running
\* job of the target
processNextQueuedJobUnguarded(S, t) ==
  IF QueueOf(S, t) = <<>> THEN S
  ELSE startJob(ShiftQueue(S, t), Head(QueueOf(S, t)))

processNextQueuedJobOf(S, t) ==
  IF QueueOf(S, t) = <<>> THEN S
  ELSE IF getActiveJobForProject(S, t) # NoJob THEN S
  ELSE startJob(ShiftQueue(S, t), Head(QueueOf(S, t)))

processNextQueuedJob(S, t) == Then(S, LAMBDA v : processNextQueuedJobOf(v, t))

\* the loop of processGlobalQueue over the map entries
RECURSIVE ScanQueues(_, _)
ScanQueues(S, keys) ==
  IF keys = <<>> THEN S
  ELSE LET t == Head(keys)
       IN IF getActiveJobForProject(S, t) # NoJob THEN ScanQueues(S, Tail(keys))
          ELSE IF Len(QueueOf(S, t)) > 0
            THEN Then(startJob(ShiftQueue(S, t), Head(QueueOf(S, t))),
                      LAMBDA S2 : IF S2.activeJobCount >= maxConcurrent THEN S2
                                  ELSE ScanQueues(S2, Tail(keys)))
            ELSE ScanQueues(S, Tail(keys))

\* variant: freed global slots are not handed to the queues of other targets
processGlobalQueueSkipped(S) == S

processGlobalQueueOf(S) ==
  IF S.activeJobCount >= maxConcurrent THEN S
  ELSE ScanQueues(S, QueueKeys(S))

processGlobalQueue(S) == Then(S, processGlobalQueueOf)

\* variant: the finally block without the advance on the job's own target
startJobFinallyWithoutOwnQueue(S, j) ==
  LET S1 == [S EXCEPT !.activeJobs = Without(@, j),
                      !.activeJobCount = @ - 1,
                      !.events[j] = Append(@, "job:completed"),
                      !.emitted = Append(@, <<"job:completed", j>>)]
  IN processGlobalQueue(S1)

\* variant: the finally block advancing the queues before it emits
\* job:completed
startJobFinallyAdvancingFirst(S, j) ==
  LET S1 == [S EXCEPT !.activeJobs = Without(@, j),
                      !.activeJobCount = @ - 1]
      S2 == processGlobalQueue(processNextQueuedJob(S1, S.project[j]))
  IN [S2 EXCEPT !.events[j] = Append(@, "job:completed"),
                !.emitted = Append(@, <<"job:completed", j>>)]

\* startJob after its await: the finally block
startJobFinallyOf(S, j) ==
  LET S1 == [S EXCEPT !.activeJobs = Without(@, j),
                      !.activeJobCount = @ - 1,
                      !.events[j] = Append(@, "job:completed"),
                      !.emitted = Append(@, <<"job:completed", j>>)]
  IN processGlobalQueue(processNextQueuedJob(S1, S.project[j]))

startJobFinally(S, j) == Then(S, LAMBDA v : startJobFinallyOf(v, j))

\* the backend call of job j resolved with result: the handle of the job
\* settles with it (directly, or through the .then of the queue processors)
startJobResolved(S, j, result) ==
  startJobFinally([S EXCEPT !.status[j] = "completed",
                            !.call[j] = "returned",
                            !.settledWith[j] = Append(@, result)], j)

\* variant: a rejection recorded like a normal return
startJobRejectedAsCompleted(S, j, error) ==
  startJobFinally([S EXCEPT !.status[j] = "completed",
                            !.call[j] = "returned",
                            !.settledWith[j] = Append(@, ErrorResult(error))], j)

\* the backend call of job j rejected with error
startJobRejected(S, j, error) ==
  startJobFinally([S EXCEPT !.status[j] = "failed",
                            !.call[j] = "returned",
                            !.settledWith[j] = Append(@, ErrorResult(error))], j)

\* variant: the tree is killed at once, with no graceful signal and no timer
killProcessTreeForced(S, p) ==
  IF S.process[p] = "failed" THEN S
  ELSE IF S.platform = "win32"
    THEN [S EXCEPT !.process[p] = IF @ = "running" THEN "terminating" ELSE @]
  ELSE IF S.process[p] \in {"running", "terminating"}
    THEN [S EXCEPT !.process[p] = "terminated"]
  ELSE S

\* killProcessTree.  A process that could not be started has no pid: nothing
\* is done.  On win32 taskkill /T /F is spawned and no timer is set.
\* Elsewhere SIGTERM is sent to the group of the process and a timer is set
\* that sends SIGKILL 3000 ms later; this also when the process has exited
\* and processes of its group are alive.  When the group is empty
\* process.kill throws, proc.kill('SIGKILL') reaches nothing and no timer is
\* set.
killProcessTree(S, p) ==
  IF S.process[p] = "failed" THEN S
  ELSE IF S.platform = "win32"
    THEN [S EXCEPT !.process[p] = IF @ = "running" THEN "terminating" ELSE @]
  ELSE IF S.process[p] \in {"running", "terminating"}
    THEN [S EXCEPT !.process[p] = "terminating", !.killTimer[p] = @ + 1]
  ELSE IF S.group[p]
    THEN [S EXCEPT !.killTimer[p] = @ + 1]
  ELSE S

\* variant: cancel() with no process tracked signals every live process
BackendCancelSignallingWhenIdle(S) ==
  LET S1 == [S EXCEPT !.cancelCalls = @ + 1]
      live == {p \in Jobs : S.process[p] = "running"}
      b == S.backend
  IN IF S1.currentProcess[b] # NoJob
       THEN [killProcessTree(S1, S1.currentProcess[b]) EXCEPT !.currentProcess[b] = NoJob]
       ELSE [S1 EXCEPT !.process = [p \in Jobs |-> IF p \in live THEN "terminating" ELSE @[p]]]

\* cancel() of the backend instance b
cancel(S, b) ==
  IF S.currentProcess[b] # NoJob
    THEN [killProcessTree(S, S.currentProcess[b]) EXCEPT !.currentProcess[b] = NoJob]
    ELSE S

\* this.backend.cancel(): cancel() of the backend instance in use
BackendCancel(S) == cancel([S EXCEPT !.cancelCalls = @ + 1], S.backend)

\* the loop of cancelQueuedJobs over the queue
RECURSIVE CancelEach(_, _)
CancelEach(S, queue) ==
  IF queue = <<>> THEN S
  ELSE LET j == Head(queue)
       IN CancelEach([S EXCEPT !.status[j] = "cancelled",
                               !.settledWith[j] = Append(@, QueueCancelledResult),
                               !.events[j] = Append(@, "job:cancelled"),
                               !.emitted = Append(@, <<"job:cancelled", j>>)],
                     Tail(queue))

\* variant: the queue stays in the map after its jobs were cancelled
cancelQueuedKeepingQueue(S, t) ==
  IF QueueIndex(S, t) = 0 THEN S ELSE CancelEach(S, QueueOf(S, t))

\* variant: the Running job of the target is cancelled with its queue
cancelQueuedWithRunning(S, t) ==
  LET S1 == IF QueueIndex(S, t) = 0 THEN S
            ELSE [CancelEach(S, QueueOf(S, t)) EXCEPT
                    !.projectQueues = RemoveAt(@, QueueIndex(S, t))]
      j == getActiveJobForProject(S1, t)
  IN IF j = NoJob THEN S1
     ELSE [BackendCancel(S1) EXCEPT !.status[j] = "cancelled",
                                    !.activeJobs = Without(@, j),
                                    !.activeJobCount = @ - 1]

cancelQueued(S, t) ==
  IF QueueIndex(S, t) = 0 THEN S
  ELSE [CancelEach(S, QueueOf(S, t)) EXCEPT !.projectQueues = RemoveAt(@, QueueIndex(S, t))]

cancelQueuedCount(S, t) ==
  IF QueueIndex(S, t) = 0 THEN 0 ELSE Len(QueueOf(S, t))

\* variant: only the first Running job is cancelled
CancelActiveFirstOnly(S, active) ==
  IF active = <<>> THEN S
  ELSE LET j == Head(active)
           S1 == BackendCancel(S)
       IN [S1 EXCEPT !.status[j] = "cancelled",
                     !.events[j] = Append(@, "job:cancelled"),
                     !.emitted = Append(@, <<"job:cancelled", j>>)]

\* the first loop of cancelAll
RECURSIVE CancelActive(_, _)
CancelActive(S, active) ==
  IF active = <<>> THEN S
  ELSE LET j == Head(active)
           S1 == BackendCancel(S)
       IN CancelActive([S1 EXCEPT !.status[j] = "cancelled",
                                  !.events[j] = Append(@, "job:cancelled"),
                                  !.emitted = Append(@, <<"job:cancelled", j>>)],
                       Tail(active))

\* the second loop of cancelAll
RECURSIVE CancelQueues(_, _)
CancelQueues(S, keys) ==
  IF keys = <<>> THEN S ELSE CancelQueues(cancelQueued(S, Head(keys)), Tail(keys))

\* the state after construction, on platform p, of the scheduler with the
\* backend instance b
InitOn(p, b) ==
  /\ status = [j \in Jobs |-> "none"]
  /\ project = [j \in Jobs |-> 1]
  /\ activeJobs = <<>>
  /\ activeJobCount = 0
  /\ maxConcurrent = DefaultMaxConcurrent
  /\ projectQueues = <<>>
  /\ events = [j \in Jobs |-> <<>>]
  /\ settledWith = [j \in Jobs |-> <<>>]
  /\ call = [j \in Jobs |-> "idle"]
  /\ backend = b
  /\ owner = [j \in Jobs |-> Tectonic]
  /\ platform = p
  /\ currentProcess = [instance \in Backends |-> NoJob]
  /\ process = [j \in Jobs |-> "none"]
  /\ group = [j \in Jobs |-> FALSE]
  /\ output = [j \in Jobs |-> NoOutput]
  /\ timer = [j \in Jobs |-> FALSE]
  /\ cancelled = [j \in Jobs |-> FALSE]
  /\ killTimer = [j \in Jobs |-> 0]
  /\ lastOp = Op("init", 0, 0, 0, <<>>, NoResult)

\* the platform and the backend instance matter only where processes are
\* spawned
Init == InitOn("posix", Tectonic)

\* the scheduler constructed with the TectonicBackend instance
TectonicInit == \E p \in Platforms : InitOn(p, Tectonic)

\* the scheduler constructed with the instance that the settings select
CallInit == \E p \in Platforms, b \in Backends : InitOn(p, b)

\* ---- CompileOrchestrator operations ----
compile(t) ==
  /\ FreeSlots(Cur) # {}
  /\ LET j == FreshJob(Cur)
         S0 == [Cur EXCEPT !.status[j] = "queued", !.project[j] = t]
         existingJob == getActiveJobForProject(S0, t)
         queued == [queueJob(S0, t, j) EXCEPT !.events[j] = Append(@, "job:queued"),
                                              !.emitted = Append(@, <<"job:queued", j>>)]
     IN Commit(IF existingJob # NoJob THEN queued
               ELSE IF S0.activeJobCount >= maxConcurrent THEN queued
               ELSE startJob(S0, j),
               "compile", t, j)
  /\ UNCHANGED maxConcurrent

\* variant: any job that exists is treated as found in the running set
cancelJobWhateverStatus(j) ==
  /\ activeJobCount - 1 - Cardinality(InFlight(Cur)) >= 0 - MaxDrift
  /\ Commit(IF Cur.status[j] # "none"
              THEN [BackendCancel(Cur) EXCEPT
                      !.status[j] = "cancelled",
                      !.activeJobs = Without(@, j),
                      !.activeJobCount = @ - 1,
                      !.events[j] = Append(@, "job:cancelled"),
                      !.emitted = Append(@, <<"job:cancelled", j>>)]
              ELSE Cur,
            "cancelJob", j, 0)
  /\ UNCHANGED maxConcurrent

cancelJob(j) ==
  /\ InSeq(Cur.activeJobs, j) =>
       activeJobCount - 1 - Cardinality(InFlight(Cur)) >= 0 - MaxDrift
  /\ Commit(IF InSeq(Cur.activeJobs, j)
              THEN [BackendCancel(Cur) EXCEPT
                      !.status[j] = "cancelled",
                      !.activeJobs = Without(@, j),
                      !.activeJobCount = @ - 1,
                      !.events[j] = Append(@, "job:cancelled"),
                      !.emitted = Append(@, <<"job:cancelled", j>>)]
              ELSE Cur,
            "cancelJob", j, 0)
  /\ UNCHANGED maxConcurrent

cancelQueuedJobs(t) ==
  /\ Commit(cancelQueued(Cur, t), "cancelQueuedJobs", t, cancelQueuedCount(Cur, t))
  /\ UNCHANGED maxConcurrent

cancelAll ==
  /\ Cardinality(InFlight(Cur)) <= MaxDrift
  /\ LET S1 == [CancelActive(Cur, Cur.activeJobs) EXCEPT !.activeJobs = <<>>,
                                                         !.activeJobCount = 0]
     IN Commit(CancelQueues(S1, QueueKeys(S1)), "cancelAll", 0, 0)
  /\ UNCHANGED maxConcurrent

setMaxConcurrent(n) ==
  /\ maxConcurrent' = IF n > 1 THEN n ELSE 1
  /\ Commit(Cur, "setMaxConcurrent", n, 0)

\* setBackend(b): the backend instance b is the one in use from now on (the
\* plugin calls it when the settings select the other backend)
setBackend(b) ==
  /\ Commit([Cur EXCEPT !.backend = b], "setBackend", b, 0)
  /\ UNCHANGED maxConcurrent

\* ---- compile of the backends, one action per asynchronous step ----
SignalExit == 0 - 1
ExitCodes == {0, 1, SignalExit}

\* the error texts of a failed ensureInstalled: an invalid custom path, and
\* the failures of the downloader (no binary for the architecture, a binary
\* that does not run, an error thrown while downloading or unpacking)
InstallErrors ==
  {<<"Custom Tectonic path not valid: ", "/opt/tectonic">>,
   <<"Unsupported platform: ", "linux-ia32",
     ". Tectonic binaries are available for macOS (x64/arm64), Linux (x64/arm64), and Windows (x64).">>,
   <<"Tectonic was downloaded but could not be executed. Please check permissions.">>,
   <<"Failed to install Tectonic: ", "network">>}

Streams == {"stdout", "stderr"}

\* the chunks a process writes: a line without its end, and whole lines
OutputChunks ==
  {WarningPrefix \o <<"w">>,
   WarningPrefix \o <<"w", "\n">>,
   ErrorPrefix \o <<"e", "\n">>}

\* the output chunks reported for job j so far
Outputs(S, j) == {i \in 1..Len(S.events[j]) : S.events[j][i] = "job:output"}

\* the progress callback of ensureInstalled of TectonicBackend.compile: the
\* onOutput callback that startJob passed for job j emits job:output with
\* the id of j
InstallProgress(j) ==
  /\ call[j] = "called"
  /\ owner[j] = Tectonic
  /\ Cardinality(Outputs(Cur, j)) < MaxOutput
  /\ Commit([Cur EXCEPT !.events[j] = Append(@, "job:output"),
                          !.emitted = Append(@, <<"job:output", j>>)],
            "progress", j, 0)
  /\ UNCHANGED maxConcurrent

\* ensureInstalled of TectonicBackend.compile reports failure: the call
\* returns a failure result
InstallFails(j, error) ==
  /\ call[j] = "called"
  /\ owner[j] = Tectonic
  /\ Commit(startJobResolved(Cur, j, InstallFailedResult(error)), "installFails", j, 0)
  /\ UNCHANGED maxConcurrent

\* fs.mkdir rejects: the call rejects
MkdirRejects(j) ==
  /\ call[j] = "called"
  /\ Commit(startJobRejected(Cur, j, "mkdir"), "mkdirRejects", j, 0)
  /\ UNCHANGED maxConcurrent

\* spawn() returns the process object, which the backend instance of the call
\* tracks; the timer is set when compileTimeout > 0.  A process that could
\* not be started (started = FALSE) has no pid and gets an error event.
Spawn(j, compileTimeout, started) ==
  /\ call[j] = "called"
  /\ Commit([Cur EXCEPT !.call[j] = "spawned",
                          !.currentProcess[Cur.owner[j]] = j,
                          !.process[j] = IF started THEN "running" ELSE "failed",
                          !.timer[j] = (compileTimeout > 0)], "spawn", j, 0)
  /\ UNCHANGED maxConcurrent

\* a data event of stdout or stderr of the process of job j: the chunk is
\* added to the buffer of the stream and the onOutput callback that startJob
\* passed for job j emits job:output with the id of j
ProcessOutput(j, stream, chunk) ==
  /\ call[j] = "spawned"
  /\ process[j] \in {"running", "terminating", "ended", "terminated"}
  /\ Cardinality(Outputs(Cur, j)) < MaxOutput
  /\ Commit([Cur EXCEPT !.output[j][stream] = @ \o chunk,
                          !.events[j] = Append(@, "job:output"),
                          !.emitted = Append(@, <<"job:output", j>>)],
            "output", j, 0)
  /\ UNCHANGED maxConcurrent

\* variant: every resolve() reaches the caller
resolvePromiseEveryTime(S, j, result) == startJobResolved(S, j, result)

\* resolve() of the promise that the compile call of job j returned:
\* the first call settles the promise and startJob goes on, later calls do
\* nothing
resolvePromise(S, j, result) ==
  IF S.call[j] = "returned" THEN S ELSE startJobResolved(S, j, result)

\* variant: the error handler leaves currentProcess as it is
ProcessErrorKeepingHandle(j, closeFollows) ==
  /\ call[j] = "spawned"
  /\ process[j] = "failed"
  /\ LET S1 == [Cur EXCEPT !.process[j] = IF closeFollows THEN "errored" ELSE "exited"]
     IN Commit(resolvePromise(S1, j, StartFailedResult(S1.owner[j])), "error", j, 0)
  /\ UNCHANGED maxConcurrent

\* the error event of a process that could not be started; closeFollows says
\* whether the runtime emits a close event for it afterwards
ProcessError(j, closeFollows) ==
  /\ call[j] = "spawned"
  /\ process[j] = "failed"
  /\ LET S1 == [Cur EXCEPT !.currentProcess[Cur.owner[j]] = NoJob,
                           !.process[j] = IF closeFollows THEN "errored" ELSE "exited"]
     IN Commit(resolvePromise(S1, j, StartFailedResult(S1.owner[j])), "error", j, 0)
  /\ UNCHANGED maxConcurrent

\* the process of job j exits, on its own or after termination was
\* requested, and other steps precede its close event; survivors says
\* whether other processes of its process group are alive then
ProcessEnds(j, survivors) ==
  /\ call[j] = "spawned"
  /\ process[j] \in {"running", "terminating"}
  /\ survivors => platform = "posix"
  /\ Commit([Cur EXCEPT !.process[j] = IF @ = "terminating" THEN "terminated"
                                          ELSE "ended",
                          !.group[j] = survivors], "exit", j, 0)
  /\ UNCHANGED maxConcurrent

\* the result of the close handler of the call of job j, ordinary path
CloseHandlerResult(S, j, code, pdfExists, texLog) ==
  IF S.owner[j] = Latexmk
    THEN LatexmkCloseResult(code, pdfExists, texLog)
    ELSE CloseResult(code, pdfExists,
                     parseTectonicOutput(S.output[j].stdout \o S.output[j].stderr))

\* the close event of the process, which has exited before or exits now and
\* whose pipes are closed: the close handler up to its first await.  A
\* process that ended after termination was requested is "killed".  For a
\* process that had an error event the rest of the handler, whose awaits
\* touch no state of the program, is taken in the same step: it ends in
\* resolve() with the result for a failed exit.  survivors says whether
\* other processes of the group of the process, which hold none of its
\* pipes, are alive after the event.
ProcessClose(j, survivors) ==
  /\ \/ call[j] = "spawned" /\ process[j] \in {"running", "terminating", "ended", "terminated"}
     \/ call[j] = "returned" /\ process[j] = "errored"
  /\ survivors =>
       platform = "posix" /\ (process[j] \in {"running", "terminating"} \/ group[j])
  /\ LET S1 == [Cur EXCEPT !.currentProcess[Cur.owner[j]] = NoJob,
                           !.process[j] = IF @ \in {"terminating", "terminated"}
                                            THEN "killed" ELSE "exited",
                           !.group[j] = survivors]
     IN Commit(IF S1.cancelled[j]
                 THEN resolvePromise(S1, j, TimeoutCancelledResult)
                 ELSE IF S1.call[j] = "returned"
                   THEN resolvePromise(S1, j, CloseHandlerResult(S1, j, 1, FALSE, NoTexLog))
                 ELSE [S1 EXCEPT !.call[j] = "closing"], "close", j, 0)
  /\ UNCHANGED maxConcurrent

\* what the close handler sees of the process: whether its exit code is 0 and
\* whether the artifact exists, as a number
ExitOutcome(code, pdfExists) ==
  (IF code = 0 THEN 2 ELSE 0) + (IF pdfExists THEN 1 ELSE 0)

\* the rest of the close handler: build log written, diagnostics taken from
\* the output (TectonicBackend) or from the TeX log (LatexmkBackend, which
\* alone reads texLog), artifact checked, resolve (the step returns the
\* outcome of the process it saw)
CloseHandlerResolve(j, code, pdfExists, texLog) ==
  /\ call[j] = "closing"
  /\ Commit(resolvePromise(Cur, j, CloseHandlerResult(Cur, j, code, pdfExists, texLog)),
            "resolve", j, ExitOutcome(code, pdfExists))
  /\ UNCHANGED maxConcurrent

\* variant: the timer ends whatever process the backend tracks
TimerFiresUnchecked(j) ==
  /\ timer[j]
  /\ LET S1 == [Cur EXCEPT !.timer[j] = FALSE]
         p == S1.currentProcess[S1.owner[j]]
     IN Commit(IF p # NoJob
                   THEN killProcessTree([S1 EXCEPT !.cancelled[p] = TRUE], p)
                   ELSE S1, "timer", j, 0)
  /\ UNCHANGED maxConcurrent

\* the timeout timer of the call of job j fires: the process of the call is
\* ended when the backend instance of the call still tracks it
TimerFires(j) ==
  /\ timer[j]
  /\ LET S1 == [Cur EXCEPT !.timer[j] = FALSE]
     IN Commit(IF S1.currentProcess[S1.owner[j]] = j
                   THEN killProcessTree([S1 EXCEPT !.cancelled[j] = TRUE], j)
                   ELSE S1, "timer", j, 0)
  /\ UNCHANGED maxConcurrent

\* the processes that outlived the process of job j in its group exit
GroupEnds(j) ==
  /\ group[j]
  /\ Commit([Cur EXCEPT !.group[j] = FALSE], "groupExit", j, 0)
  /\ UNCHANGED maxConcurrent

\* a timer set by killProcessTree for the process of job j fires:
\* process.kill(-pid, 'SIGKILL') is called whether or not the process has
\* exited and ends the processes of the group that are alive; when none is,
\* it throws and the error is ignored
\* (the step returns 1 when the process or a process of its group was alive,
\* 0 otherwise)
KillTimerFires(j) ==
  /\ killTimer[j] > 0
  /\ Commit([Cur EXCEPT !.killTimer[j] = @ - 1, !.group[j] = FALSE], "sigkill", j,
            IF process[j] = "terminating" \/ group[j] THEN 1 ELSE 0)
  /\ UNCHANGED maxConcurrent

\* ---- CompilerBackend.compile as the scheduler sees it ----
SuccessResult ==
  [success |-> TRUE, pdfPath |-> PdfFile, diagnostics |-> <<>>]

FailureResult ==
  [success |-> FALSE, pdfPath |-> NoPdf,
   diagnostics |-> <<[severity |-> "error", message |-> <<"backend error">>]>>]

BackendResults == {SuccessResult, FailureResult}

\* the promise returned by Backend.compile for job j resolves
BackendResolves(j, result) ==
  /\ call[j] = "called"
  /\ CommitResult(startJobResolved(Cur, j, result), "resolves", j, result)
  /\ UNCHANGED maxConcurrent

\* the promise returned by Backend.compile for job j rejects
BackendRejects(j) ==
  /\ call[j] = "called"
  /\ Commit(startJobRejected(Cur, j, "error"), "rejects", j, 0)
  /\ UNCHANGED maxConcurrent

SchedulerStep ==
  \/ \E t \in Targets : compile(t)
  \/ \E j \in Jobs : cancelJob(j)
  \/ \E t \in Targets : cancelQueuedJobs(t)
  \/ cancelAll
  \/ \E n \in 0..MaxCeiling : setMaxConcurrent(n)

\* the scheduler with any backend
Next ==
  \/ SchedulerStep
  \/ \E j \in Jobs, result \in BackendResults : BackendResolves(j, result)
  \/ \E j \in Jobs : BackendRejects(j)

Spec == Init /\ [][Next]_vars

\* the process steps of the backend instances; the processes that outlive
\* a close event are followed while a SIGKILL timer of their group is
\* pending, the one step of the program that can reach them
BackendStep ==
  \/ \E j \in Jobs, error \in InstallErrors : InstallFails(j, error)
  \/ \E j \in Jobs : MkdirRejects(j)
  \/ \E j \in Jobs, compileTimeout \in {0, 1}, started \in BOOLEAN :
       Spawn(j, compileTimeout, started)
  \/ \E j \in Jobs, closeFollows \in BOOLEAN : ProcessError(j, closeFollows)
  \/ \E j \in Jobs, survivors \in BOOLEAN :
       (survivors => killTimer[j] > 0) /\ ProcessClose(j, survivors)
  \/ \E j \in Jobs : GroupEnds(j)
  \/ \E j \in Jobs, code \in ExitCodes, pdfExists \in BOOLEAN :
       \E texLog \in TexLogsRead(owner[j]) :
         CloseHandlerResolve(j, code, pdfExists, texLog)
  \/ \E j \in Jobs : TimerFires(j)
  \/ \E j \in Jobs : KillTimerFires(j)

\* the scheduler with the TectonicBackend instance, on either platform,
\* TectonicNJobs jobs at a time on TectonicNTargets targets
\* under the default maximum: compile() is called for a target that has no
\* Running job, so that every job starts at once and no job is queued (the
\* queues are the matter of Spec); without the calls that change nothing,
\* without the output of the processes, the close event of a process
\* following its exit at once (processes of its group may outlive it)
TectonicNext ==
  \/ \E t \in 1..TectonicNTargets :
       /\ FreeSlots(Cur) \cap (1..TectonicNJobs) # {}
       /\ getActiveJobForProject(Cur, t) = NoJob
       /\ compile(t)
  \/ \E j \in Jobs : InSeq(activeJobs, j) /\ cancelJob(j)
  \/ (activeJobs # <<>> \/ activeJobCount # 0) /\ cancelAll
  \/ BackendStep

TectonicSpec == TectonicInit /\ [][TectonicNext]_vars

\* the scheduler with the backend instances and the output of their
\* processes, CallNJobs jobs at a time on CallNTargets targets, at most
\* MaxOutput chunks per job
CallNext ==
  \/ \E t \in 1..CallNTargets :
       FreeSlots(Cur) \cap (1..CallNJobs) # {} /\ compile(t)
  \/ \E j \in Jobs : InSeq(activeJobs, j) /\ cancelJob(j)
  \/ (activeJobs # <<>> \/ activeJobCount # 0) /\ cancelAll
  \/ \E b \in Backends : b # backend /\ setBackend(b)
  \/ \E j \in Jobs : InstallProgress(j)
  \/ \E j \in Jobs, stream \in Streams, chunk \in OutputChunks :
       ProcessOutput(j, stream, chunk)
  \/ \E j \in Jobs, survivors \in BOOLEAN : ProcessEnds(j, survivors)
  \/ BackendStep

CallSpec == CallInit /\ [][CallNext]_vars

\* the scheduler with any backend, its maximum never lowered
NoLowerNext ==
  \/ \E t \in Targets : compile(t)
  \/ \E j \in Jobs : cancelJob(j)
  \/ \E t \in Targets : cancelQueuedJobs(t)
  \/ cancelAll
  \/ \E n \in maxConcurrent..MaxCeiling : setMaxConcurrent(n)
  \/ \E j \in Jobs, result \in BackendResults : BackendResolves(j, result)
  \/ \E j \in Jobs : BackendRejects(j)

NoLowerSpec == Init /\ [][NoLowerNext]_vars

\* every Backend.compile call eventually resolves or rejects
BackendSettles(j) ==
  \/ \E result \in BackendResults : BackendResolves(j, result)
  \/ BackendRejects(j)

\* the scheduler with any backend and LiveNTargets targets, cancelJob
\* letting the counter fall LiveMaxDrift below the calls in flight, without
\* the calls that change nothing
\* (cancelJob of a job that is not Running, cancelQueuedJobs of a target with
\* no queue, cancelAll with nothing to cancel and the counter at zero,
\* setMaxConcurrent to the value in force)
LiveNext ==
  \/ \E t \in 1..LiveNTargets : compile(t)
  \/ \E j \in Jobs :
       /\ InSeq(activeJobs, j)
       /\ activeJobCount - 1 - Cardinality(InFlight(Cur)) >= 0 - LiveMaxDrift
       /\ cancelJob(j)
  \/ \E t \in Targets : QueueIndex(State, t) # 0 /\ cancelQueuedJobs(t)
  \/ (activeJobs # <<>> \/ projectQueues # <<>> \/ activeJobCount # 0) /\ cancelAll
  \/ \E n \in 1..MaxCeiling : n # maxConcurrent /\ setMaxConcurrent(n)
  \/ \E j \in Jobs, result \in BackendResults : BackendResolves(j, result)
  \/ \E j \in Jobs : BackendRejects(j)

LiveSpec ==
  Init /\ [][LiveNext]_vars /\ \A j \in Jobs : WF_vars(BackendSettles(j))

TypeOK ==
  /\ status \in [Jobs -> {"none", "queued", "running"} \cup Terminal]
  /\ activeJobCount \in (0 - MaxDrift)..NJobs
  /\ killTimer \in [Jobs -> 0..2]
  /\ backend \in Backends
  /\ owner \in [Jobs -> Backends]
  /\ platform \in Platforms
  /\ currentProcess \in [Backends -> Jobs \cup {NoJob}]
  /\ process \in [Jobs -> {"none", "running", "terminating", "ended", "terminated",
                            "failed", "errored", "exited", "killed"}]
  /\ group \in [Jobs -> BOOLEAN]
  /\ \A j \in Jobs :
       group[j] =>
         \/ process[j] \in {"ended", "terminated"}
         \/ process[j] \in {"exited", "killed", "none"} /\ killTimer[j] > 0

\* ---- properties ----
RunningJobs(t) ==
  {j \in Jobs : InSeq(activeJobs, j) /\ project[j] = t /\ status[j] = "running"}

Queued(j) == InQueues(State, j)

TerminalEvents(j) ==
  {i \in 1..Len(events[j]) : events[j][i] \in {"job:completed", "job:cancelled"}}

\* C1: in every reachable state the running set holds at most one job with
\* status Running per target key.
OneRunningPerTarget == \A t \in Targets : Cardinality(RunningJobs(t)) <= 1

\* a target with a Running job and a queued job while a global slot is free,
\* and a second target Running beside it
OneRunningPerTargetWitness ==
  \E t \in Targets, u \in Targets :
    /\ t # u
    /\ RunningJobs(t) # {} /\ RunningJobs(u) # {}
    /\ QueueOf(State, t) # <<>>

\* C2: while the maximum is never lowered, the number of jobs in the running
\* set never exceeds the configured maximum concurrency.
RunningWithinMaximum == Len(activeJobs) <= maxConcurrent

HandlePending(j) == status[j] # "none" /\ settledWith[j] = <<>>

SettledWithTerminalEvent(j) == settledWith[j] # <<>> /\ TerminalEvents(j) # {}

\* C3 as stated: when every backend call eventually returns, every job
\* created by compile() eventually has its handle settled and has emitted a
\* terminal event, under any interleaving of the scheduler's operations.
EveryJobSettles ==
  \A j \in Jobs : HandlePending(j) ~> SettledWithTerminalEvent(j)

\* C3 amended: the same, for the interleavings in which compile() is called
\* only finitely often.
EveryJobSettlesOnceSubmissionsEnd ==
  <>[](lastOp.op # "compile") => EveryJobSettles

\* a job that was queued behind the ceiling has been started from the queue,
\* its backend call has returned and its handle is settled
EveryJobSettlesWitness ==
  \E j \in Jobs :
    /\ events[j] = <<"job:queued", "job:started", "job:completed">>
    /\ settledWith[j] # <<>>
    /\ maxConcurrent = 1

\* C6: when Backend.compile rejects, the caller's handle settles (it is never
\* rejected) with a result that has success=false and exactly one
\* error-severity diagnostic carrying the error text, the job's status is
\* Failed and job:completed is emitted.
RejectionBecomesFailedResult ==
  lastOp.op = "rejects" =>
    LET j == lastOp.arg
    IN /\ status[j] = "failed"
       /\ Len(settledWith[j]) = 1
       /\ settledWith[j][1].success = FALSE
       /\ Len(settledWith[j][1].diagnostics) = 1
       /\ settledWith[j][1].diagnostics[1].severity = "error"
       /\ settledWith[j][1].diagnostics[1].message = <<"Compilation error: ", "error">>
       /\ events[j][Len(events[j])] = "job:completed"

\* the backend call of a job that was started from a queue has rejected
RejectionBecomesFailedResultWitness ==
  /\ lastOp.op = "rejects"
  /\ events[lastOp.arg] = <<"job:queued", "job:started", "job:completed">>

QueueCancelled(j) == InSeq(settledWith[j], QueueCancelledResult)

\* C7: cancelQueuedJobs(T) removes every queued job of T, settles each with
\* success=false and a single info diagnostic saying the compilation was
\* cancelled, emits exactly one job:cancelled per removed job and returns
\* the number removed (0, and nothing emitted, when T has no queue);
\* Backend.compile is never invoked for a removed job.
CancelQueuedJobsSettlesAll ==
  /\ \A j \in Jobs :
       QueueCancelled(j) => call[j] = "idle" /\ ~InSeq(events[j], "job:started")
  /\ lastOp.op = "cancelQueuedJobs" =>
       LET t == lastOp.arg
           removed == {j \in Jobs : QueueCancelled(j)}
       IN /\ QueueIndex(State, t) = 0
          /\ \A j \in Jobs : status[j] = "queued" => project[j] # t
          /\ Cardinality(removed) = lastOp.ret
          /\ \A j \in removed :
               /\ project[j] = t
               /\ status[j] = "cancelled"
               /\ Len(settledWith[j]) = 1
               /\ settledWith[j][1].success = FALSE
               /\ Len(settledWith[j][1].diagnostics) = 1
               /\ settledWith[j][1].diagnostics[1].severity = "info"
               /\ settledWith[j][1].diagnostics[1].message =
                    <<"Compilation cancelled (removed from queue)">>
               /\ events[j] = <<"job:queued", "job:cancelled">>

\* two queued jobs of a target were removed while its Running job goes on
CancelQueuedJobsSettlesAllWitness ==
  /\ lastOp.op = "cancelQueuedJobs"
  /\ lastOp.ret = 2
  /\ RunningJobs(lastOp.arg) # {}

\* C8: cancelJob(id) on a Running job calls Backend.cancel(), marks the job
\* Cancelled, removes it from the running set, emits job:cancelled and runs
\* the advance step before it returns: the head of the same target's queue
\* is started, and queued jobs of targets with no Running job are started
\* while global slots remain.
CancelJobAdvances ==
  (lastOp.op = "cancelJob" /\ lastOp.cancels = 1) =>
    LET j == lastOp.arg
    IN /\ status[j] = "cancelled"
       /\ ~InSeq(activeJobs, j)
       /\ events[j][Len(events[j])] = "job:cancelled"
       /\ QueueOf(State, project[j]) # <<>> => RunningJobs(project[j]) # {}
       /\ \A t \in Targets :
            (QueueOf(State, t) # <<>> /\ RunningJobs(t) = {}) =>
               activeJobCount >= maxConcurrent

\* C9: after cancelAll() the bookkeeping holds no Running and no queued job
\* on any target, every previously queued job has been settled with a
\* cancelled (success=false) result and has emitted job:cancelled, and
\* Backend.cancel() has been called once for every previously Running job.
CancelAllClearsEverything ==
  [][lastOp'.op = "cancelAll" =>
       /\ activeJobs' = <<>>
       /\ activeJobCount' = 0
       /\ projectQueues' = <<>>
       /\ \A j \in Jobs : status'[j] \notin {"queued", "running"}
       /\ \A j \in Jobs :
            InQueues(State, j) =>
              /\ status'[j] = "cancelled"
              /\ settledWith'[j] = <<QueueCancelledResult>>
              /\ settledWith'[j][1].success = FALSE
              /\ events'[j] = <<"job:queued", "job:cancelled">>
       /\ \A j \in Jobs :
            InSeq(activeJobs, j) =>
              /\ status'[j] = "cancelled"
              /\ events'[j][Len(events'[j])] = "job:cancelled"
       /\ lastOp'.cancels = Len(activeJobs)]_vars

\* cancelAll() has cancelled two Running jobs and a queued one
CancelAllClearsEverythingWitness ==
  /\ lastOp.op = "cancelAll"
  /\ lastOp.cancels = 2
  /\ \E j \in Jobs : QueueCancelled(j)

\* C10: after cancelAll() the handle of every job that was Running settles
\* even when its process would never exit on its own, for any number of
\* Running jobs sharing the backend: cancelAll() asks every running process
\* of a Running job to terminate.
CancelAllTerminatesEveryProcess ==
  [][lastOp'.op = "cancelAll" =>
       \A j \in Jobs :
         (InSeq(activeJobs, j) /\ process[j] = "running") =>
            process'[j] = "terminating"]_vars

\* C11: when the time budget of a compile elapses and its process has not
\* exited, escalating termination is started for that process (and the call
\* then resolves as cancelled), also when other compiles started, ran or
\* finished on the same backend instance before the timer fired.
TimeoutTerminatesProcess ==
  [][lastOp'.op = "timer" =>
       (process[lastOp'.arg] = "running" =>
          /\ process'[lastOp'.arg] = "terminating"
          /\ cancelled'[lastOp'.arg])]_vars

Completions(j) == {i \in 1..Len(events[j]) : events[j][i] = "job:completed"}

ProcessEnded(j) == process[j] \in {"exited", "killed", "errored"}

\* C12: each Backend.compile call resolves exactly once, whichever way the
\* spawned process ends (normal exit, error event possibly followed by a
\* close event, timeout, external cancel()): the caller of the backend goes
\* on at most once, and has gone on once when the process has ended and its
\* handlers have run.
CallResolvesExactlyOnce ==
  \A j \in Jobs :
    /\ Cardinality(Completions(j)) <= 1
    /\ call[j] = "returned" <=> Cardinality(Completions(j)) = 1
    /\ (ProcessEnded(j) /\ call[j] # "closing") => call[j] = "returned"

\* the close event that followed an error event has been handled: the
\* result of the call is still the one the error handler gave
CallResolvesExactlyOnceWitness ==
  /\ lastOp.op = "close"
  /\ settledWith[lastOp.arg] = <<StartFailedResult(owner[lastOp.arg])>>
  /\ process[lastOp.arg] = "exited"

\* the result the last step resolved the call of job j with
ResolvedWith(j) == settledWith[j][Len(settledWith[j])]

\* C13: when a compile is ended by external cancel() or by timeout, the call
\* resolves with success=false, no artifact location and a diagnostic of
\* informational severity, none of error severity.
CancelledCallResolvesInformational ==
  (/\ lastOp.op \in {"close", "resolve"}
   /\ process[lastOp.arg] = "killed"
   /\ call[lastOp.arg] = "returned") =>
     LET result == ResolvedWith(lastOp.arg)
     IN /\ result.success = FALSE
        /\ result.pdfPath = NoPdf
        /\ result.diagnostics # <<>>
        /\ \A i \in 1..Len(result.diagnostics) :
             result.diagnostics[i].severity = "info"

\* C14: a job's status only moves forward along Queued -> Running ->
\* {Completed, Failed, Cancelled}; once terminal it never changes again,
\* also when the backend call of a job cancelled while Running returns.
StatusNeverRegresses ==
  [][\A j \in Jobs :
       /\ (status[j] \in Terminal /\ ~Unreferenced(State, j)) => status'[j] = status[j]
       /\ status[j] = "running" => status'[j] # "queued"]_vars

\* the jobs a step starts
Started == {h \in Jobs : status'[h] = "running" /\ status[h] # "running"}

\* C15: a compile() for a target that has a Running job never starts the
\* job, whatever the global headroom: the job goes to the tail of the
\* target's queue, job:queued is emitted and Backend.compile is not invoked.
BusyTargetQueues ==
  [][(lastOp'.op = "compile" /\ RunningJobs(lastOp'.arg) # {}) =>
       LET j == lastOp'.ret
           t == lastOp'.arg
       IN /\ status'[j] = "queued"
          /\ project'[j] = t
          /\ QueueOf(State', t) = Append(QueueOf(State, t), j)
          /\ events'[j] = <<"job:queued">>
          /\ call'[j] = "idle"
          /\ Started = {}
          /\ activeJobs' = activeJobs]_vars

\* a job was queued behind the Running job of its target while a global slot
\* was free and the target already had a queued job
BusyTargetQueuesWitness ==
  /\ lastOp.op = "compile"
  /\ status[lastOp.ret] = "queued"
  /\ RunningJobs(lastOp.arg) # {}
  /\ Len(QueueOf(State, lastOp.arg)) = 2
  /\ Len(activeJobs) < maxConcurrent
  /\ activeJobCount = Len(activeJobs)

\* C16: a compile() made while the number of Running jobs equals the
\* configured maximum queues the job (job:queued emitted, Backend.compile
\* not invoked), also when its own target has no Running job.
SaturatedCompileQueues ==
  [][(lastOp'.op = "compile" /\ Len(activeJobs) = maxConcurrent) =>
       LET j == lastOp'.ret
       IN /\ status'[j] = "queued"
          /\ InSeq(QueueOf(State', lastOp'.arg), j)
          /\ events'[j] = <<"job:queued">>
          /\ call'[j] = "idle"]_vars

\* C17: when the backend call of a Running job resolves and its target's
\* queue is non-empty, the head of that queue is started in the same step
\* (job:started emitted, Backend.compile invoked); the handle of a job that
\* was started from a queue settles with the result of its own backend call.
QueueHeadStartsOnCompletion ==
  [][lastOp'.op = "resolves" =>
       LET j == lastOp'.arg
           t == project[j]
       IN /\ (events[j] # <<>> /\ events[j][1] = "job:queued") =>
               settledWith'[j] = <<lastOp'.result>>
          /\ (status[j] = "running" /\ InSeq(activeJobs, j) /\ QueueOf(State, t) # <<>>) =>
               LET h == Head(QueueOf(State, t))
               IN /\ status'[h] = "running"
                  /\ InSeq(activeJobs', h)
                  /\ events'[h] = <<"job:queued", "job:started">>
                  /\ call'[h] = "called"
                  /\ settledWith'[h] = <<>>]_vars

\* the backend call of a job that was itself started from the queue has
\* resolved, its handle holds that result, and the next job of the target
\* has been started
QueueHeadStartsOnCompletionWitness ==
  /\ lastOp.op = "resolves"
  /\ events[lastOp.arg] = <<"job:queued", "job:started", "job:completed">>
  /\ settledWith[lastOp.arg] = <<lastOp.result>>
  /\ \E h \in Jobs :
       /\ h # lastOp.arg
       /\ project[h] = project[lastOp.arg]
       /\ events[h] = <<"job:queued", "job:started">>

\* C18: when a Running job completes, after the same-target advance, queued
\* jobs of targets that have no Running job are started in the order of
\* the queue map, at most one per target, until the running count reaches
\* the maximum; when the advance ends no target has at once a queued job,
\* no Running job and a free global slot.
GlobalScanFillsFreeSlots ==
  [][(/\ lastOp'.op \in {"resolves", "rejects"}
      /\ status[lastOp'.arg] = "running"
      /\ InSeq(activeJobs, lastOp'.arg)) =>
       LET t == project[lastOp'.arg]
           ownHead == IF QueueOf(State, t) = <<>> THEN {} ELSE {Head(QueueOf(State, t))}
           scanned == Started \ ownHead
           Waiting(i) == /\ projectQueues[i].key # t
                         /\ RunningJobs(projectQueues[i].key) = {}
       IN /\ \A h1 \in Started, h2 \in Started :
               project[h1] = project[h2] => h1 = h2
          /\ scanned # {} => Len(activeJobs') <= maxConcurrent
          /\ \A h \in scanned :
               \E i \in 1..Len(projectQueues) :
                  Waiting(i) /\ Head(projectQueues[i].queue) = h
          /\ \A i \in 1..Len(projectQueues), k \in 1..Len(projectQueues) :
               (i < k /\ Waiting(i) /\ Head(projectQueues[k].queue) \in scanned) =>
                  Head(projectQueues[i].queue) \in scanned
          /\ \A u \in Targets :
               ~(/\ QueueOf(State', u) # <<>>
                 /\ RunningJobs(u)' = {}
                 /\ Len(activeJobs') < maxConcurrent)]_vars

\* C19: cancelJob(id) where id is not a Running job (unknown id, queued job,
\* job already terminal) emits no event, does not call Backend.cancel() and
\* leaves the running set, the running count and every queue unchanged.
CancelJobOfNonRunningIsNoOp ==
  [][(/\ lastOp'.op = "cancelJob"
      /\ ~(status[lastOp'.arg] = "running" /\ InSeq(activeJobs, lastOp'.arg))) =>
       /\ lastOp'.cancels = 0
       /\ activeJobs' = activeJobs
       /\ activeJobCount' = activeJobCount
       /\ projectQueues' = projectQueues
       /\ currentProcess' = currentProcess
       /\ \A k \in Jobs :
            ~Unreferenced(State, k) =>
               /\ events'[k] = events[k]
               /\ status'[k] = status[k]
               /\ settledWith'[k] = settledWith[k]]_vars

\* cancelJob was called with the id of a queued job while another job runs
CancelJobOfNonRunningIsNoOpWitness ==
  /\ lastOp.op = "cancelJob"
  /\ status[lastOp.arg] = "queued"
  /\ activeJobs # <<>>

\* C20: setMaxConcurrent(n) cancels or alters no Running or queued job, and
\* no job becomes Running while the number of Running jobs is already at or
\* above the ceiling, whether compile(), the same-target advance or the
\* cross-target scan starts it (the running count being accurate before and
\* after the step).
CeilingHoldsForEveryStart ==
  [][/\ lastOp'.op = "setMaxConcurrent" =>
          /\ activeJobs' = activeJobs
          /\ activeJobCount' = activeJobCount
          /\ projectQueues' = projectQueues
          /\ \A k \in Jobs :
               ~Unreferenced(State, k) =>
                  status'[k] = status[k] /\ events'[k] = events[k]
     /\ (/\ Started # {}
         /\ activeJobCount = Len(activeJobs)
         /\ activeJobCount' = Len(activeJobs')) =>
          Len(activeJobs') <= maxConcurrent']_vars

\* the processes that were spawned and have not exited
LiveProcesses == {j \in Jobs : process[j] \in {"running", "terminating"}}

\* the steps that end a process: cancel() and the timeout timer
TerminationOps == {"cancelJob", "cancelAll", "timer"}

\* C21: on a platform with process groups every termination, by timeout or
\* by cancel, first sends the graceful signal to the process group: the step
\* leaves a live process alive, as one asked to terminate, and sets the
\* timer of the forced kill, which is set by no other step.  The forced kill
\* comes with a later step, the timer's, for a process that was asked to
\* terminate before; it reaches a process only if the process or another
\* process of its group is still alive, and it changes no process that has
\* exited.
GracefulFirstForcedOnlyIfAlive ==
  [][platform = "posix" =>
       /\ \A j \in Jobs :
            /\ (/\ lastOp'.op \in TerminationOps
                /\ process[j] \in {"running", "terminating"}
                /\ process'[j] # process[j]) =>
                 process'[j] = "terminating" /\ killTimer'[j] = killTimer[j] + 1
            /\ killTimer'[j] > killTimer[j] =>
                 /\ lastOp'.op \in TerminationOps
                 /\ killTimer'[j] = killTimer[j] + 1
                 /\ \/ process[j] \in {"running", "terminating"} /\ process'[j] = "terminating"
                    \/ group[j] /\ process'[j] = process[j]
       /\ lastOp'.op = "sigkill" =>
            /\ killTimer[lastOp'.arg] > 0
            /\ process[lastOp'.arg] # "running"
            /\ lastOp'.ret = 1 <=>
                 (process[lastOp'.arg] = "terminating" \/ group[lastOp'.arg])
            /\ process' = Cur.process]_vars

GracefulFirstForcedOnlyIfAliveWitness ==
  /\ platform = "posix"
  /\ lastOp.op = "sigkill"
  /\ lastOp.ret = 1
  /\ process[lastOp.arg] = "terminating"

\* C22: at any instant the backend instance has at most one spawned,
\* not-yet-exited process in flight, for every schedule of the scheduler
\* with its single backend and a maximum of two.
AtMostOneProcessInFlight == Cardinality(LiveProcesses) <= 1

\* C23: every result with success=false has no artifact location.
FailureHasNoArtifact ==
  \A j \in Jobs : \A i \in 1..Len(settledWith[j]) :
    settledWith[j][i].success = FALSE => settledWith[j][i].pdfPath = NoPdf

\* C24: every failure result produced after the process exited on its own
\* carries at least one diagnostic.
FailureCarriesDiagnostic ==
  (/\ lastOp.op = "resolve"
   /\ process[lastOp.arg] = "exited"
   /\ ResolvedWith(lastOp.arg).success = FALSE) =>
     ResolvedWith(lastOp.arg).diagnostics # <<>>

\* the part of the state that belongs to the backend
BackendState(S) ==
  [currentProcess |-> S.currentProcess, process |-> S.process, group |-> S.group,
   timer |-> S.timer, cancelled |-> S.cancelled, killTimer |-> S.killTimer]

\* C25: when the process cannot be spawned the call resolves with
\* success=false, no artifact location and an error diagnostic carrying the
\* code of its backend (TECTONIC_NOT_FOUND, LATEXMK_NOT_FOUND); the backend
\* tracks no process afterwards, so a cancel() that follows changes nothing.
SpawnFailureResolvesNamed ==
  lastOp.op = "error" =>
    /\ call[lastOp.arg] = "returned"
    /\ ResolvedWith(lastOp.arg).success = FALSE
    /\ ResolvedWith(lastOp.arg).pdfPath = NoPdf
    /\ Len(ResolvedWith(lastOp.arg).diagnostics) = 1
    /\ ResolvedWith(lastOp.arg).diagnostics[1].severity = "error"
    /\ ResolvedWith(lastOp.arg).diagnostics[1].code =
         (IF owner[lastOp.arg] = Latexmk THEN "LATEXMK_NOT_FOUND"
                                         ELSE "TECTONIC_NOT_FOUND")
    /\ currentProcess[owner[lastOp.arg]] = NoJob
    /\ BackendState(cancel(State, owner[lastOp.arg])) = BackendState(State)

\* the error event of a process that the LatexmkBackend instance could not
\* start has arrived
SpawnFailureResolvesNamedWitness ==
  /\ lastOp.op = "error"
  /\ owner[lastOp.arg] = Latexmk
  /\ settledWith[lastOp.arg] = <<StartFailedResult(Latexmk)>>
  /\ ResolvedWith(lastOp.arg).diagnostics[1].code = "LATEXMK_NOT_FOUND"

\* C27: cancel() with no process tracked signals no process and leaves the
\* state of the backend unchanged, in every call cancelJob and cancelAll
\* make; and cancel() twice in a row leaves the state one cancel() leaves.
CancelWhenIdleIsNoOp ==
  [][/\ (/\ lastOp'.op \in {"cancelJob", "cancelAll"}
         /\ lastOp'.cancels > 0
         /\ currentProcess[backend] = NoJob) =>
           BackendState(State') = BackendState(Cur)
     /\ (/\ lastOp'.op \in {"cancelJob", "cancelAll"}
         /\ lastOp'.cancels > 0) =>
           BackendState(State') = BackendState(BackendCancel(Cur))
     /\ currentProcess[backend] = NoJob =>
          BackendState(BackendCancel(State)) = BackendState(State)
     /\ BackendState(BackendCancel(BackendCancel(State))) =
          BackendState(BackendCancel(State))]_vars

\* cancelAll has called cancel() twice: the first call ended the tracked
\* process, the second found none, and the other process is still running
CancelWhenIdleIsNoOpWitness ==
  /\ lastOp.op = "cancelAll"
  /\ lastOp.cancels = 2
  /\ currentProcess[backend] = NoJob
  /\ \E j \in Jobs : process[j] = "running"
  /\ \E j \in Jobs : process[j] = "terminating"

\* C30: when the process exits without the timeout having fired, the result
\* has success=true exactly when the exit code is 0 and the artifact exists.
SuccessIffCleanExitWithArtifact ==
  lastOp.op = "resolve" =>
    (ResolvedWith(lastOp.arg).success = TRUE
       <=> lastOp.ret = ExitOutcome(0, TRUE))

\* the process exited with code 0 and the artifact is missing: the result is
\* a failure
SuccessIffCleanExitWithArtifactWitness ==
  /\ lastOp.op = "resolve"
  /\ lastOp.ret = ExitOutcome(0, FALSE)
  /\ process[lastOp.arg] = "exited"
  /\ ResolvedWith(lastOp.arg).success = FALSE

\* C26: isCompiling(T) returns true exactly when a job for target key T is
\* Running, in every reachable state.
IsCompilingReportsRunning ==
  \A t \in Targets : isCompiling(State, t) <=> RunningJobs(t) # {}

\* the handle of job j is settled by the step
SettledNow(j) == settledWith'[j] # <<>> /\ settledWith[j] = <<>>

\* C28: each job's settle handle is invoked at most once: a job settled by
\* cancelQueuedJobs or cancelAll was queued, is referred to by nothing
\* afterwards and so is never started or settled again, and a backend
\* completion settles only the job whose call it is, with its result.
SettleHandleInvokedOnce ==
  [][\A j \in Jobs :
       /\ Len(settledWith'[j]) <= 1
       /\ QueueCancelled(j)' =>
            /\ call'[j] = "idle"
            /\ ~InSeq(activeJobs', j)
            /\ ~InQueues(State', j)
       /\ SettledNow(j) =>
            \/ /\ lastOp'.op = "resolves"
               /\ j = lastOp'.arg
               /\ settledWith'[j] = <<lastOp'.result>>
            \/ /\ lastOp'.op = "rejects"
               /\ j = lastOp'.arg
            \/ /\ lastOp'.op \in {"cancelQueuedJobs", "cancelAll"}
               /\ InQueues(State, j)
               /\ settledWith'[j] = <<QueueCancelledResult>>]_vars

\* a job started from a queue was cancelled by cancelAll while Running, and
\* its backend call has resolved afterwards: its handle is settled once
SettleHandleInvokedOnceWitness ==
  /\ lastOp.op = "resolves"
  /\ events[lastOp.arg] =
       <<"job:queued", "job:started", "job:cancelled", "job:completed">>
  /\ settledWith[lastOp.arg] = <<lastOp.result>>

EventAt(j, names) == {i \in 1..Len(events[j]) : events[j][i] \in names}

\* C29: lifecycle events are emitted in transition order: for every job,
\* job:queued precedes job:started, which precedes its terminal events; and
\* when a job of a target is started, every job of that target that was
\* started before it has already emitted a terminal event.
EventsInTransitionOrder ==
  [][/\ \A j \in Jobs :
          /\ \A i \in EventAt(j, {"job:queued"})' : i = 1
          /\ \A i \in EventAt(j, {"job:started"})',
                k \in EventAt(j, {"job:completed", "job:cancelled"})' : i < k
          /\ Cardinality(EventAt(j, {"job:started"})') <= 1
     /\ \A n \in 1..Len(lastOp'.emitted) :
          lastOp'.emitted[n][1] = "job:started" =>
            \A k \in Jobs :
              (/\ k # lastOp'.emitted[n][2]
               /\ EventAt(k, {"job:started"}) # {}
               /\ project[k] = project'[lastOp'.emitted[n][2]]) =>
                 \/ TerminalEvents(k) # {}
                 \/ \E m \in 1..(n - 1) :
                      /\ lastOp'.emitted[m][2] = k
                      /\ lastOp'.emitted[m][1] \in {"job:completed", "job:cancelled"}]_vars

\* a completion emitted job:completed and then started the next job of the
\* same target from its queue
EventsInTransitionOrderWitness ==
  /\ lastOp.op = "resolves"
  /\ Len(lastOp.emitted) = 2
  /\ lastOp.emitted[1][1] = "job:completed"
  /\ lastOp.emitted[2][1] = "job:started"
  /\ project[lastOp.emitted[1][2]] = project[lastOp.emitted[2][2]]

\* C4: every job emits at most one terminal lifecycle event (job:completed
\* or job:cancelled) over its whole life.
AtMostOneTerminalEvent == \A j \in Jobs : Cardinality(TerminalEvents(j)) <= 1

\* C5: within one target key jobs become Running in submission order: a job
\* of target T is started only when no job of T submitted earlier is still
\* queued, that is, T's queue is empty or the job is its head.
StartsInSubmissionOrder ==
  [][\A j \in Jobs :
       (status'[j] = "running" /\ status[j] # "running") =>
          \/ QueueOf(State, project'[j]) = <<>>
          \/ Head(QueueOf(State, project'[j])) = j]_vars

\* C31: cancelQueuedJobs(T) leaves unchanged the Running jobs (a Running job
\* of T included), the running count and the queues of every other target;
\* it never calls Backend.cancel() and signals no process.
CancelQueuedJobsFrame ==
  [][lastOp'.op = "cancelQueuedJobs" =>
       /\ activeJobs' = activeJobs
       /\ activeJobCount' = activeJobCount
       /\ \A j \in Jobs :
            InSeq(activeJobs, j) =>
              /\ status'[j] = status[j]
              /\ call'[j] = call[j]
              /\ events'[j] = events[j]
              /\ settledWith'[j] = settledWith[j]
       /\ \A u \in Targets \ {lastOp'.arg} : QueueOf(State', u) = QueueOf(State, u)
       /\ lastOp'.cancels = 0
       /\ BackendState(State') = BackendState(Cur)]_vars

\* the queue of a target was cancelled while its Running job goes on and
\* another target has a queue
CancelQueuedJobsFrameWitness ==
  /\ lastOp.op = "cancelQueuedJobs"
  /\ lastOp.ret >= 1
  /\ RunningJobs(lastOp.arg) # {}
  /\ \E u \in Targets : u # lastOp.arg /\ QueueOf(State, u) # <<>>

\* C32: in every reachable state no job is at once in a target queue and in
\* the running set, and no job with status Running is in a queue.
QueuedNeverRunning ==
  \A j \in Jobs :
    InQueues(State, j) => (~InSeq(activeJobs, j) /\ status[j] = "queued")

\* a completion has started the head of a queue that holds a further job
QueuedNeverRunningWitness ==
  /\ lastOp.op = "resolves"
  /\ \E h \in Jobs :
       /\ InSeq(lastOp.emitted, <<"job:started", h>>)
       /\ InSeq(activeJobs, h)
       /\ QueueOf(State, project[h]) # <<>>

\* C33: in every reachable state the map of target queues holds no empty
\* queue, and at most one queue per target.
NoEmptyQueue ==
  /\ \A i \in 1..Len(projectQueues) : projectQueues[i].queue # <<>>
  /\ \A i \in 1..Len(projectQueues), k \in 1..Len(projectQueues) :
       projectQueues[i].key = projectQueues[k].key => i = k

\* a completion has started the only queued job of its target: the queue of
\* the target is gone while another target still has one
NoEmptyQueueWitness ==
  /\ lastOp.op = "resolves"
  /\ projectQueues # <<>>
  /\ \E h \in Jobs :
       /\ InSeq(lastOp.emitted, <<"job:started", h>>)
       /\ events[h][1] = "job:queued"
       /\ QueueIndex(State, project[h]) = 0

\* C34: in every reachable state the running count is non-negative and
\* equals the number of jobs in the running set.
RunningCountMatchesRunningSet ==
  /\ activeJobCount >= 0
  /\ activeJobCount = Len(activeJobs)

\* C36: at any instant at most one Backend.compile invocation is in flight
\* per target key.
OneCallInFlightPerTarget ==
  \A t \in Targets :
    Cardinality({j \in InFlight(State) : project[j] = t}) <= 1

\* C35: cancelJob(id) on a Running job requests termination of the process
\* that belongs to job id and of the process of no other job.
CancelJobTerminatesOwnProcess ==
  [][\A j \in Jobs :
       (/\ lastOp'.op = "cancelJob"
        /\ lastOp'.arg = j
        /\ InSeq(activeJobs, j)
        /\ process[j] = "running") =>
          /\ process'[j] = "terminating"
          /\ \A k \in Jobs \ {j} : process'[k] = Cur.process[k]]_vars

\* C37: a job for which job:cancelled has been emitted never has its handle
\* settled with success=true.
CancelledNeverSucceeds ==
  \A j \in Jobs :
    InSeq(events[j], "job:cancelled") =>
      \A i \in 1..Len(settledWith[j]) : settledWith[j][i].success = FALSE

\* the close event of the process of job j has been handled, or the process
\* was ended by cancel()
ClosedOrCancelled(S, j) ==
  S.process[j] \in {"none", "terminating", "terminated", "errored", "exited", "killed"}

\* C39: a timeout timer that fires after its own process has exited or has
\* been cancelled signals no process and marks no call as cancelled: the
\* state of the backend is unchanged but for the timer itself; and no timer
\* touches the process or the call of another job.
StaleTimerSignalsNothing ==
  [][\A j \in Jobs :
       (lastOp'.op = "timer" /\ lastOp'.arg = j) =>
          /\ ClosedOrCancelled(Cur, j) =>
                BackendState(State') =
                  [BackendState(Cur) EXCEPT !.timer[j] = FALSE]
          /\ \A k \in Jobs \ {j} :
                /\ process'[k] = Cur.process[k]
                /\ cancelled'[k] = Cur.cancelled[k]
                /\ killTimer'[k] = Cur.killTimer[k]]_vars

\* the timer of a call whose process is no longer running has fired while
\* the backend tracks the running process of a later call
StaleTimerSignalsNothingWitness ==
  /\ lastOp.op = "timer"
  /\ process[lastOp.arg] \in {"exited", "killed"}
  /\ currentProcess[backend] # NoJob
  /\ currentProcess[backend] # lastOp.arg
  /\ process[currentProcess[backend]] = "running"
  /\ ~cancelled[currentProcess[backend]]

\* C38: no job:output event is emitted for a job after the terminal event
\* (job:completed or job:cancelled) of that job.
NoOutputAfterTerminalEvent ==
  \A j \in Jobs : \A i \in TerminalEvents(j), k \in Outputs(State, j) : k < i

====
